---- MODULE Spec2Model ----
(***************************************************************************)
(* Model of bot.py: a scrape -> dedupe -> queue -> translate -> publish    *)
(* pipeline.  The posts table of x_posts.db is the durable queue; main()   *)
(* runs one collection pass and then the Telegram front-end, whose /start  *)
(* handler spawns scheduler loops that run send_next_post forever.         *)
(*                                                                         *)
(* Python strings are sequences of one-character strings, so that strip()  *)
(* and split("/") are computed and not assumed.                            *)
(***************************************************************************)
EXTENDS Integers, Sequences, FiniteSets, TLC

VARIABLES
    posts,      \* rows of table posts, in rowid order
    seq,        \* sqlite_sequence value of table posts (AUTOINCREMENT)
    call,       \* last Durable Queue operation issued by an outside caller
    mainPc,     \* position of main()
    acct,       \* index into ACCOUNTS of the account being collected
    sessions,   \* browser sessions opened by this run and not quit
    page,       \* the document the last browser session loaded
    batch,      \* main's local posts: the list fetch_posts returned last
    update,     \* /start update waiting for its handler
    replies,    \* confirmation messages sent by the /start handler
    loops,      \* the start_scheduled_posting tasks created by /start
    delivered,  \* record id -> number of times the channel received it
    lostAck,    \* record id -> number of its deliveries that raised even so
    inserted,   \* external ids that some insert has stored
    environ,    \* os.getenv("POST_INTERVAL"): None when not set, or a string
    POST_INTERVAL,  \* the module global, once line 25 has run
    storageError    \* fate of the last sqlite3 error raised by the queue

vars == <<posts, seq, call, mainPc, acct, sessions, page, batch, update,
          replies, loops, delivered, lostAck, inserted, environ,
          POST_INTERVAL, storageError>>

\* what no step of main, of the handler or of a loop changes
fixedVars == <<call, environ, POST_INTERVAL, storageError>>

progVars == <<mainPc, acct, sessions, page, batch, update, replies,
              loops, delivered, lostAck, environ, POST_INTERVAL,
              storageError>>

----------------------------------------------------------------------------
(* Bounds of the model *)

MaxElems == 1        \* elements matched by the CSS selector on one page
MaxLoops == 2        \* scheduler loops created in one run
MaxLostAcks == 1     \* lost acknowledgments per record
MaxCalls == 4        \* insert attempts by an outside caller of the queue
MaxBatch == 2        \* posts in one batch of an outside caller

(* Configuration *)

ADMIN_ID == 1
ACCOUNTS == <<"TechCrunch", "PopCrave", "BusinessInsider">>
Users == {ADMIN_ID, ADMIN_ID + 1}
DEFAULT_INTERVAL == 600
MAX_INTERVAL == 1200

----------------------------------------------------------------------------
(* Python values *)

PyNone == [ty |-> "None", s |-> <<>>]
PyStr(s) == [ty |-> "str", s |-> s]

IsSpace(c) == c = " "

RECURSIVE LStrip(_)
LStrip(s) == IF s # <<>> /\ IsSpace(Head(s)) THEN LStrip(Tail(s)) ELSE s

RECURSIVE RStrip(_)
RStrip(s) ==
    IF s # <<>> /\ IsSpace(s[Len(s)])
    THEN RStrip(SubSeq(s, 1, Len(s) - 1))
    ELSE s

\* str.strip()
Strip(s) == RStrip(LStrip(s))

\* href.split("/")[-1]
RECURSIVE LastSegment(_)
LastSegment(h) ==
    IF \E i \in 1..Len(h) : h[i] = "/"
    THEN LastSegment(Tail(h))
    ELSE h

----------------------------------------------------------------------------
(* POST_INTERVAL = min(int(os.getenv("POST_INTERVAL", 600)), 1200) *)

DigitChars == <<"0", "1", "2", "3", "4", "5", "6", "7", "8", "9">>
IsDigit(c) == \E d \in 1..Len(DigitChars) : DigitChars[d] = c
DigitValue(c) == (CHOOSE d \in 1..Len(DigitChars) : DigitChars[d] = c) - 1

\* the digits after an optional sign
Digits(s) == IF s # <<>> /\ Head(s) = "-" THEN Tail(s) ELSE s

\* int(s) raises ValueError unless s is an optional sign and digits
IsIntLiteral(s) ==
    /\ Digits(s) # <<>>
    /\ \A i \in 1..Len(Digits(s)) : IsDigit(Digits(s)[i])

RECURSIVE DigitsValue(_)
DigitsValue(ds) ==
    IF ds = <<>> THEN 0
    ELSE 10 * DigitsValue(SubSeq(ds, 1, Len(ds) - 1))
           + DigitValue(ds[Len(ds)])

\* int(s) of a literal
int(s) ==
    IF Head(s) = "-" THEN 0 - DigitsValue(Digits(s)) ELSE DigitsValue(Digits(s))

Unclamped(n) == n

\* min(n, 1200)
Clamp(n) == IF n < MAX_INTERVAL THEN n ELSE MAX_INTERVAL

NotLoaded == [state |-> "not loaded", n |-> 0]

\* the value line 25 leaves in POST_INTERVAL, or the ValueError of int()
LoadInterval(env) ==
    IF env = PyNone THEN [state |-> "loaded", n |-> Clamp(DEFAULT_INTERVAL)]
    ELSE IF IsIntLiteral(env.s)
         THEN [state |-> "loaded", n |-> Clamp(int(env.s))]
         ELSE [state |-> "ValueError", n |-> 0]

----------------------------------------------------------------------------
(* Durable Queue: the posts table *)

NoRow == [kind |-> "none", id |-> 0, text |-> <<>>]

HasPostId(rows, pid) == \E i \in 1..Len(rows) : rows[i].post_id = pid

\* faulty variant: a plain INSERT into a table without UNIQUE(post_id)
InsertPlain(db, account, post) ==
    [rows |-> Append(db.rows,
                [id |-> db.seq + 1, account |-> account, post_id |-> post.id,
                 text |-> post.text, status |-> "new",
                 created_at |-> post.created_at]),
     seq |-> db.seq + 1]

\* faulty variant: INSERT OR REPLACE, which deletes the conflicting row
InsertOrReplace(db, account, post) ==
    InsertPlain(
        [rows |-> SelectSeq(db.rows, LAMBDA r : r.post_id # post.id),
         seq |-> db.seq],
        account, post)

\* faulty variant: an upsert, ON CONFLICT(post_id) DO UPDATE SET account,
\* text and created_at
InsertOrUpdate(db, account, post) ==
    IF HasPostId(db.rows, post.id)
    THEN [rows |-> [i \in 1..Len(db.rows) |->
                     IF db.rows[i].post_id = post.id
                     THEN [db.rows[i] EXCEPT !.account = account,
                               !.text = post.text,
                               !.created_at = post.created_at]
                     ELSE db.rows[i]],
          seq |-> db.seq + 1]
    ELSE InsertPlain(db, account, post)

\* one INSERT OR IGNORE: the rowid is drawn from the sequence before the
\* UNIQUE(post_id) check, so an ignored row consumes it as well
InsertOrIgnore(db, account, post) ==
    IF HasPostId(db.rows, post.id)
    THEN [rows |-> db.rows, seq |-> db.seq + 1]
    ELSE [rows |-> Append(db.rows,
                     [id |-> db.seq + 1, account |-> account,
                      post_id |-> post.id, text |-> post.text,
                      status |-> "new", created_at |-> post.created_at]),
          seq |-> db.seq + 1]

RECURSIVE save_posts_to_db(_, _, _)
save_posts_to_db(db, ps, account) ==
    IF ps = <<>> THEN db
    ELSE save_posts_to_db(InsertOrIgnore(db, account, Head(ps)), Tail(ps),
                          account)

NewIds(rows) ==
    {rows[i].id : i \in {j \in 1..Len(rows) : rows[j].status = "new"}}

RowOf(rows, id) == rows[CHOOSE i \in 1..Len(rows) : rows[i].id = id]

\* faulty variant: ORDER BY id DESC
get_newest_post(rows) ==
    IF NewIds(rows) = {} THEN NoRow
    ELSE LET last == CHOOSE i \in NewIds(rows) : \A j \in NewIds(rows) : i >= j
         IN [kind |-> "row", id |-> last, text |-> RowOf(rows, last).text]

\* SELECT id, text FROM posts WHERE status='new' ORDER BY id ASC LIMIT 1
\* faulty variant: the lowest new id is passed over when another is new
get_second_post(rows) ==
    IF NewIds(rows) = {} THEN NoRow
    ELSE LET low == CHOOSE i \in NewIds(rows) : \A j \in NewIds(rows) : i <= j
             rest == NewIds(rows) \ {low}
             pick == IF rest = {} THEN low
                     ELSE CHOOSE i \in rest : \A j \in rest : i <= j
         IN [kind |-> "row", id |-> pick, text |-> RowOf(rows, pick).text]

get_next_post(rows) ==
    IF NewIds(rows) = {} THEN NoRow
    ELSE LET first == CHOOSE i \in NewIds(rows) : \A j \in NewIds(rows) : i <= j
         IN [kind |-> "row", id |-> first, text |-> RowOf(rows, first).text]

\* faulty variant: UPDATE posts SET status='sent' WHERE id<=?
mark_posts_sent_upto(rows, id) ==
    [i \in 1..Len(rows) |->
        IF rows[i].id <= id THEN [rows[i] EXCEPT !.status = "sent"]
        ELSE rows[i]]

\* faulty variant: the UPDATE is never committed
mark_post_uncommitted(rows, id) == rows

\* UPDATE posts SET status='sent' WHERE id=?
mark_post_sent(rows, id) ==
    [i \in 1..Len(rows) |->
        IF rows[i].id = id THEN [rows[i] EXCEPT !.status = "sent"] ELSE rows[i]]

PostIdsOf(ps) == {ps[i].id : i \in 1..Len(ps)}

----------------------------------------------------------------------------
(* Initial state: no db file yet, the process about to enter main() *)

NoCall == [op |-> "none", account |-> "", arg |-> 0, ret |-> NoRow]
NoUpdate == [pending |-> FALSE, user |-> 0]
NoPage == [found |-> FALSE, elems |-> <<>>]
NoStorageError == [op |-> "none", loop |-> 0]

\* the state when main() is entered, the configuration apart
MainInit ==
    /\ posts = <<>>
    /\ seq = 0
    /\ call = NoCall
    /\ mainPc = "init_db"
    /\ acct = 1
    /\ sessions = 0
    /\ page = NoPage
    /\ batch = <<>>
    /\ update = NoUpdate
    /\ replies = 0
    /\ loops = <<>>
    /\ delivered = <<>>
    /\ lostAck = <<>>
    /\ inserted = {}
    /\ storageError = NoStorageError

\* POST_INTERVAL is not set in the environment and the module is loaded
Init ==
    /\ MainInit
    /\ environ = PyNone
    /\ POST_INTERVAL = LoadInterval(environ)

----------------------------------------------------------------------------
(* Loading the configuration, for every value of the environment variable *)

MaxEnvLen == 4       \* characters of the POST_INTERVAL environment value

EnvChars == {DigitChars[d] : d \in 1..Len(DigitChars)} \cup {"-"}
EnvValues ==
    {PyNone} \cup
    {PyStr(s) : s \in UNION {[1..n -> EnvChars] : n \in 0..MaxEnvLen}}

ConfigInit ==
    /\ MainInit
    /\ environ \in EnvValues
    /\ POST_INTERVAL = NotLoaded

\* line 25, executed when the module is loaded
LoadConfig ==
    /\ POST_INTERVAL = NotLoaded
    /\ POST_INTERVAL' = LoadInterval(environ)
    /\ UNCHANGED <<posts, seq, call, mainPc, acct, sessions, page, batch,
                   update, replies, loops, delivered, lostAck, inserted,
                   environ, storageError>>

ConfigNext == LoadConfig

ConfigSpec == ConfigInit /\ [][ConfigNext]_vars

----------------------------------------------------------------------------
(* The Durable Queue driven by an arbitrary caller *)

CallerPostIds == {<<"1">>, <<"2">>, <<"3">>}
CallerTexts == {<<"a">>, <<"b">>}
CallerPosts == [id : CallerPostIds, text : CallerTexts, created_at : {1}]
CallerBatches ==
    UNION {[1..n -> CallerPosts] : n \in 0..MaxBatch}
CallerAccounts == {ACCOUNTS[1], ACCOUNTS[2]}

insert_many(account, ps) ==
    /\ seq + Len(ps) <= MaxCalls
    /\ LET db == save_posts_to_db([rows |-> posts, seq |-> seq], ps, account)
       IN /\ posts' = db.rows
          /\ seq' = db.seq
    /\ inserted' = inserted \cup PostIdsOf(ps)
    /\ call' = [op |-> "insert_many", account |-> account, arg |-> Len(ps),
                ret |-> NoRow]
    /\ UNCHANGED progVars

next_pending ==
    /\ call' = [NoCall EXCEPT !.op = "next_pending",
                               !.ret = get_next_post(posts)]
    /\ UNCHANGED <<posts, seq, inserted>>
    /\ UNCHANGED progVars

mark_sent(id) ==
    /\ posts' = mark_post_sent(posts, id)
    /\ call' = [NoCall EXCEPT !.op = "mark_sent", !.arg = id]
    /\ UNCHANGED <<seq, inserted>>
    /\ UNCHANGED progVars

QueueNext ==
    \/ \E a \in CallerAccounts, ps \in CallerBatches : insert_many(a, ps)
    \/ next_pending
    \/ \E id \in 1..(MaxCalls + 1) : mark_sent(id)

QueueSpec == Init /\ [][QueueNext]_vars

----------------------------------------------------------------------------
(* Collector: what the browser shows for one account *)

Hrefs == {PyNone, PyStr(<<"s", "/", "1">>), PyStr(<<"x", "/", "s", "/", "2">>)}
TextElems ==
    {[found |-> FALSE, text |-> <<>>],
     [found |-> TRUE, text |-> <<" ">>],
     [found |-> TRUE, text |-> <<" ", "a", " ">>]}
Elements == [href : Hrefs, textElem : TextElems]
Pages ==
    [found : {TRUE}, elems : UNION {[1..n -> Elements] : n \in 0..MaxElems}]
        \cup {[found |-> FALSE, elems |-> <<>>]}

Truthy(v) == v.ty = "str" /\ v.s # <<>>

\* the for loop of fetch_posts; an exception of find_element leaves the loop
\* through the except clause with the posts added so far
KeepsAnyText(text) == TRUE

\* if text.strip():
NonBlank(text) == Strip(text) # <<>>

RECURSIVE ScanElements(_, _)
ScanElements(elems, found) ==
    IF elems = <<>> THEN found
    ELSE LET elem == Head(elems)
         IN IF ~Truthy(elem.href) THEN ScanElements(Tail(elems), found)
            ELSE IF ~elem.textElem.found THEN found
            ELSE IF NonBlank(elem.textElem.text)
                 THEN ScanElements(Tail(elems),
                        found \cup {<<LastSegment(elem.href.s),
                                      Strip(elem.textElem.text)>>})
                 ELSE ScanElements(Tail(elems), found)

\* the try block: find_elements itself may raise
ExtractPosts(doc) ==
    IF doc.found THEN ScanElements(doc.elems, {}) ELSE {}

\* the lists a comprehension over the set may produce (set order is arbitrary)
Listings(S, now) ==
    {[i \in 1..Cardinality(S) |->
        [id |-> f[i][1], text |-> f[i][2], created_at |-> now]] :
     f \in {g \in [1..Cardinality(S) -> S] :
              \A i, j \in 1..Cardinality(S) : g[i] = g[j] => i = j}}

----------------------------------------------------------------------------
(* main(): init_db, then fetch_posts and save_posts_to_db per account *)

init_db ==
    /\ mainPc = "init_db"
    /\ mainPc' = "chrome"
    /\ acct' = 1
    /\ UNCHANGED <<posts, seq, fixedVars, sessions, page, batch, update,
                   replies, loops, delivered, lostAck, inserted>>

\* webdriver.Chrome(...), before the try block
StartBrowser(ok) ==
    /\ mainPc = "chrome"
    /\ IF ok
       THEN mainPc' = "get" /\ sessions' = sessions + 1
       ELSE mainPc' = "crashed" /\ UNCHANGED sessions
    /\ UNCHANGED <<posts, seq, fixedVars, acct, page, batch, update, replies,
                   loops, delivered, lostAck, inserted>>

\* driver.get(url); driver.implicitly_wait(5), before the try block
LoadPage(ok, doc) ==
    /\ mainPc = "get"
    /\ IF ok
       THEN mainPc' = "extract" /\ page' = doc
       ELSE mainPc' = "crashed" /\ UNCHANGED page
    /\ UNCHANGED <<posts, seq, fixedVars, acct, sessions, batch, update,
                   replies, loops, delivered, lostAck, inserted>>

\* datetime.now() as a logical time: the ordinal of the fetch in the pass
Now == acct

\* try / except / finally driver.quit(), and the returned list
Extract ==
    /\ mainPc = "extract"
    /\ sessions' = sessions - 1
    /\ batch' \in Listings(ExtractPosts(page), Now)
    /\ mainPc' = "save"
    /\ UNCHANGED <<posts, seq, fixedVars, acct, page, update, replies, loops,
                   delivered, lostAck, inserted>>

\* save_posts_to_db(posts, account), then the next account or the front-end
SavePosts ==
    /\ mainPc = "save"
    /\ LET db == save_posts_to_db([rows |-> posts, seq |-> seq], batch,
                                  ACCOUNTS[acct])
       IN /\ posts' = db.rows
          /\ seq' = db.seq
    /\ inserted' = inserted \cup PostIdsOf(batch)
    /\ IF acct < Len(ACCOUNTS)
       THEN /\ acct' = acct + 1 /\ mainPc' = "chrome"
            /\ UNCHANGED <<page, batch>>
       ELSE /\ acct' = acct /\ mainPc' = "polling"
            /\ page' = NoPage /\ batch' = <<>>
    /\ UNCHANGED <<fixedVars, sessions, update, replies, loops,
                   delivered, lostAck>>

----------------------------------------------------------------------------
(* Translator *)

Choice(has, v) == [hasContent |-> has, content |-> v]
Resp(t, status, json, hasChoices, choices) ==
    [t |-> t, status |-> status, json |-> json, hasChoices |-> hasChoices,
     choices |-> choices]

Responses ==
    {Resp("ConnectionError", 0, FALSE, FALSE, <<>>),
     Resp("Timeout", 0, FALSE, FALSE, <<>>),
     Resp("http", 500, TRUE, FALSE, <<>>),
     Resp("http", 200, FALSE, FALSE, <<>>),
     Resp("http", 200, TRUE, FALSE, <<>>),
     Resp("http", 200, TRUE, TRUE, <<>>),
     Resp("http", 200, TRUE, TRUE, <<Choice(FALSE, PyNone)>>),
     Resp("http", 200, TRUE, TRUE, <<Choice(TRUE, PyNone)>>),
     Resp("http", 200, TRUE, TRUE, <<Choice(TRUE, PyStr(<<"r">>))>>),
     Resp("http", 200, TRUE, TRUE,
          <<Choice(TRUE, PyStr(<<"r">>)), Choice(TRUE, PyStr(<<"q">>))>>)}

\* the statements of the try block that raise, in order
Raises(r) ==
    \/ r.t # "http"                       \* requests.post
    \/ r.status >= 400                    \* raise_for_status
    \/ ~r.json                            \* r.json()
    \/ ~r.hasChoices                      \* data["choices"]
    \/ r.choices = <<>>                   \* [0]
    \/ ~r.choices[1].hasContent           \* ["message"]["content"]

translate_text(text, r) ==
    IF Raises(r) THEN PyStr(text) ELSE r.choices[1].content

----------------------------------------------------------------------------
(* Publisher and Scheduler loop *)

Count(f, id) == IF id \in DOMAIN f THEN f[id] ELSE 0
Bump(f, id) == (id :> Count(f, id) + 1) @@ f

\* a task of start_scheduled_posting, with the locals of send_next_post:
\* pc is "start" (created), "send" (awaiting send_message) or "sleep";
\* log is the last line the cycle printed; trFailed records, for the cycle
\* in progress, whether the translation call failed
NewLoop ==
    [pc |-> "start", post_id |-> 0, translated |-> PyNone, trFailed |-> FALSE,
     log |-> "none"]

\* what the API contract calls a failed call: anything but a 2xx JSON reply
\* whose first choice carries a content string
Deviates(r) == Raises(r) \/ r.choices[1].content.ty # "str"

\* what translate_text can return for a text, over all replies of the API
Translations(text) ==
    {[translated |-> translate_text(text, r), failed |-> Deviates(r)] :
         r \in Responses}

\* send_next_post up to its await: get_next_post, translate_text, send_message
\* faulty variant: the loop returns when the queue is empty
PcReturnsOnEmpty == "dead"

\* send_next_post returns on an empty queue and the loop goes on to its sleep
PcAfterEmpty == "sleep"

Cycle(l) ==
    /\ mainPc = "polling"
    /\ loops[l].pc \in {"start", "sleep"}
    /\ LET post == get_next_post(posts)
       IN IF post.kind = "none"
          THEN loops' = [loops EXCEPT ![l] =
                   [NewLoop EXCEPT !.pc = PcAfterEmpty,
                                   !.log = "no_new_posts"]]
          ELSE \E tr \in Translations(post.text) :
                   loops' = [loops EXCEPT ![l] =
                       [NewLoop EXCEPT !.pc = "send", !.post_id = post.id,
                                       !.translated = tr.translated,
                                       !.trFailed = tr.failed]]
    /\ UNCHANGED <<posts, seq, fixedVars, mainPc, acct, sessions, page, batch,
                   update, replies, delivered, lostAck, inserted>>

\* what the channel can do with a message: "ok", "error" (not delivered,
\* raises), "lost_ack" (delivered, raises); a message without text is refused
Outcomes(l) ==
    IF loops[l].translated.ty # "str" THEN {"error"}
    ELSE {"ok", "error"} \cup
         (IF Count(lostAck, loops[l].post_id) < MaxLostAcks
          THEN {"lost_ack"} ELSE {})

\* faulty variant: mark_post_sent called before the outcome is known
StoreMarkedFirst(out, id) == mark_post_sent(posts, id)

\* faulty variant: mark_post_sent called in the except clause
StoreMarkedOnError(out, id) ==
    IF out = "ok" THEN posts ELSE mark_post_sent(posts, id)

\* the try block of send_next_post: mark_post_sent runs only when
\* send_message returned
StoreAfterSend(out, id) ==
    IF out = "ok" THEN mark_post_sent(posts, id) ELSE posts

\* faulty variant: no except clause, an exception of send_message ends the task
PcUncaught(out) == IF out = "ok" THEN "sleep" ELSE "dead"

\* where the loop is after the cycle: the except clause swallows every
\* Exception, so start_scheduled_posting always goes on to asyncio.sleep
PcAfterSend(out) == "sleep"

\* send_next_post from the return of send_message to the sleep of the loop;
\* post_id stays in the loop's record after a cycle that failed
SendDone(l, out) ==
    /\ mainPc = "polling"
    /\ loops[l].pc = "send"
    /\ out \in Outcomes(l)
    /\ delivered' = IF out = "error" THEN delivered
                    ELSE Bump(delivered, loops[l].post_id)
    /\ lostAck' = IF out = "lost_ack" THEN Bump(lostAck, loops[l].post_id)
                  ELSE lostAck
    /\ posts' = StoreAfterSend(out, loops[l].post_id)
    /\ loops' = [loops EXCEPT ![l] =
                   [NewLoop EXCEPT !.pc = PcAfterSend(out),
                       !.post_id = IF out = "ok" THEN 0 ELSE loops[l].post_id,
                       !.log = IF out = "ok" THEN "sent" ELSE "send_error"]]
    /\ UNCHANGED <<seq, fixedVars, mainPc, acct, sessions, page, batch, update,
                   replies, inserted>>

----------------------------------------------------------------------------
(* Front-end: the /start command *)

\* a user sends /start while the application polls
ReceiveStart(u) ==
    /\ mainPc = "polling"
    /\ ~update.pending
    /\ Len(loops) < MaxLoops
    /\ update' = [pending |-> TRUE, user |-> u]
    /\ UNCHANGED <<posts, seq, fixedVars, mainPc, acct, sessions, page, batch,
                   replies, loops, delivered, lostAck, inserted>>

AuthorizedAnyone(user) == TRUE

\* faulty variant: a start-once guard, no task while one is running
TaskOnce(tasks) == IF tasks = <<>> THEN <<NewLoop>> ELSE tasks

\* context.application.create_task(start_scheduled_posting(context))
create_task(tasks) == Append(tasks, NewLoop)

\* the guard of the handler: update.effective_user.id != ADMIN_ID returns
Authorized(user) == user = ADMIN_ID

\* the handler: admin check, reply_text (which may raise), create_task;
\* update keeps the sender of the last command handled
start(replyOk) ==
    /\ mainPc = "polling"
    /\ update.pending
    /\ update' = [update EXCEPT !.pending = FALSE]
    /\ IF ~Authorized(update.user) \/ ~replyOk
       THEN UNCHANGED <<replies, loops>>
       ELSE /\ replies' = replies + 1
            /\ loops' = create_task(loops)
    /\ UNCHANGED <<posts, seq, fixedVars, mainPc, acct, sessions, page, batch,
                   delivered, lostAck, inserted>>

Next ==
    \/ init_db
    \/ \E ok \in BOOLEAN : StartBrowser(ok)
    \/ \E ok \in BOOLEAN, doc \in Pages : LoadPage(ok, doc)
    \/ Extract
    \/ SavePosts
    \/ \E u \in Users : ReceiveStart(u)
    \/ \E replyOk \in BOOLEAN : start(replyOk)
    \/ \E l \in 1..Len(loops) : Cycle(l)
    \/ \E l \in 1..Len(loops), out \in {"ok", "error", "lost_ack"} :
           SendDone(l, out)

Spec == Init /\ [][Next]_vars

----------------------------------------------------------------------------
(* The program under fair scheduling: the event loop runs every task that  *)
(* is ready, asyncio.sleep and the await of send_message both return; and  *)
(* deliveries attempted again and again succeed again and again            *)

LoopStep(l) ==
    /\ l \in 1..Len(loops)
    /\ \/ Cycle(l)
       \/ \E out \in {"ok", "error", "lost_ack"} : SendDone(l, out)

Attempting == \E l \in 1..Len(loops) : loops[l].pc = "send"

Delivers == \E l \in 1..Len(loops) : SendDone(l, "ok")

LiveSpec ==
    /\ Spec
    /\ \A l \in 1..MaxLoops : WF_vars(LoopStep(l))
    /\ []<>Attempting => []<><<Delivers>>_vars

----------------------------------------------------------------------------
(* The program when sqlite3 raises (locked database, I/O error, full disk), *)
(* at most once in a run                                                    *)

\* save_posts_to_db raises in main: nothing is committed, main() ends
SavePostsRaises ==
    /\ storageError = NoStorageError
    /\ mainPc = "save"
    /\ mainPc' = "crashed"
    /\ storageError' = [op |-> "insert_many", loop |-> 0]
    /\ UNCHANGED <<posts, seq, call, environ, POST_INTERVAL, acct, sessions,
                   page, batch, update, replies, loops, delivered, lostAck,
                   inserted>>

\* get_next_post raises, outside the try block of send_next_post: the
\* exception leaves send_next_post and the while loop, the task is over
CycleRaises(l) ==
    /\ storageError = NoStorageError
    /\ mainPc = "polling"
    /\ loops[l].pc \in {"start", "sleep"}
    /\ loops' = [loops EXCEPT ![l] = [NewLoop EXCEPT !.pc = "dead"]]
    /\ storageError' = [op |-> "next_pending", loop |-> l]
    /\ UNCHANGED <<posts, seq, call, environ, POST_INTERVAL, mainPc, acct,
                   sessions, page, batch, update, replies, delivered,
                   lostAck, inserted>>

\* send_message returned and mark_post_sent raises, inside the try block:
\* except Exception takes it, prints the send error and the loop goes on
MarkSentRaises(l) ==
    /\ storageError = NoStorageError
    /\ mainPc = "polling"
    /\ loops[l].pc = "send"
    /\ "ok" \in Outcomes(l)
    /\ delivered' = Bump(delivered, loops[l].post_id)
    /\ loops' = [loops EXCEPT ![l] =
                   [NewLoop EXCEPT !.pc = "sleep", !.log = "send_error"]]
    /\ storageError' = [op |-> "mark_sent", loop |-> l]
    /\ UNCHANGED <<posts, seq, call, environ, POST_INTERVAL, mainPc, acct,
                   sessions, page, batch, update, replies, lostAck, inserted>>

FaultNext ==
    \/ Next
    \/ SavePostsRaises
    \/ \E l \in 1..Len(loops) : CycleRaises(l)
    \/ \E l \in 1..Len(loops) : MarkSentRaises(l)

FaultSpec == Init /\ [][FaultNext]_vars

----------------------------------------------------------------------------
(* Properties of the Durable Queue under an arbitrary caller (QueueSpec) *)

StoredPostIds == {posts[i].post_id : i \in 1..Len(posts)}

\* C1: after any sequence of insert_many calls the store holds at most one
\* record per external id, and exactly one for every external id that was
\* ever inserted
C1_OneRecordPerExternalId ==
    /\ \A i, j \in 1..Len(posts) : posts[i].post_id = posts[j].post_id => i = j
    /\ StoredPostIds = inserted

\* two records, from different accounts, and two more inserts that were
\* ignored as duplicates of them
C1_Witness ==
    /\ Len(posts) = 2
    /\ seq = Len(posts) + 2
    /\ posts[1].account # posts[2].account

\* C2: next_pending() returns the record with the lowest id among those with
\* status new, and none exactly when no record has status new
C2_NextPendingIsLowestNew ==
    call.op = "next_pending" =>
        /\ call.ret.kind = "none" <=>
               \A i \in 1..Len(posts) : posts[i].status # "new"
        /\ call.ret.kind = "row" =>
               \E i \in 1..Len(posts) :
                   /\ posts[i].id = call.ret.id
                   /\ posts[i].text = call.ret.text
                   /\ posts[i].status = "new"
                   /\ \A j \in 1..Len(posts) :
                          posts[j].status = "new" => posts[i].id <= posts[j].id

\* records 1, 2, 3 stored, 1 marked sent, and next_pending() returned 2
C2_Witness ==
    /\ Len(posts) = 3
    /\ \A i \in 1..3 : posts[i].id = i
    /\ posts[1].status = "sent" /\ posts[2].status = "new"
    /\ posts[3].status = "new"
    /\ call.op = "next_pending" /\ call.ret.id = 2

\* C3: every record is created with status new, a record's status only ever
\* changes from new to sent, a sent record stays sent, and no record is
\* ever removed
C3_StatusOnlyNewToSent ==
    [][/\ Len(posts') >= Len(posts)
       /\ \A i \in 1..Len(posts) :
              /\ posts'[i].id = posts[i].id
              /\ posts'[i].post_id = posts[i].post_id
              /\ posts'[i].status \in {"new", "sent"}
              /\ posts[i].status = "sent" => posts'[i].status = "sent"
       /\ \A i \in (Len(posts) + 1)..Len(posts') :
              posts'[i].status = "new"]_vars

\* the last call inserted posts, all of them with the external id of the
\* one record there is, which had been marked sent and still is
C3_Witness ==
    /\ call.op = "insert_many" /\ call.arg >= 1
    /\ Len(posts) = 1
    /\ posts[1].status = "sent"

\* C4: mark_sent(id) turns exactly the record with that id from new to sent
\* and changes no other record; for an id that does not exist or is already
\* sent the store is left unchanged
C4_MarkSentExactlyOne ==
    [][call'.op = "mark_sent" =>
          /\ seq' = seq
          /\ Len(posts') = Len(posts)
          /\ \A i \in 1..Len(posts) :
                 IF posts[i].id = call'.arg /\ posts[i].status = "new"
                 THEN posts'[i] = [posts[i] EXCEPT !.status = "sent"]
                 ELSE posts'[i] = posts[i]]_vars

\* mark_sent just ran on a record while a record with a lower id stays new
C4_Witness ==
    /\ call.op = "mark_sent"
    /\ \E i, j \in 1..Len(posts) :
           /\ posts[i].id = call.arg /\ posts[i].status = "sent"
           /\ posts[j].id < call.arg /\ posts[j].status = "new"

----------------------------------------------------------------------------
(* Properties of the program (Spec) *)

\* loop l leaves its await of send_message in this step
Resumes(l) ==
    /\ l \in 1..Len(loops')
    /\ loops[l].pc = "send"
    /\ loops'[l].pc # "send"

\* ... and the channel received the message and said so
DeliverySucceeded(l) ==
    /\ Count(delivered', loops[l].post_id)
           = Count(delivered, loops[l].post_id) + 1
    /\ Count(lostAck', loops[l].post_id) = Count(lostAck, loops[l].post_id)

\* C5: a Publisher cycle that dequeued a record and whose delivery succeeded
\* has marked that record sent when it ends, so next_pending() no longer
\* returns it; if that record was the only new one, next_pending() returns
\* none
C5_SuccessMarksSent ==
    [][\A l \in 1..Len(loops) :
          Resumes(l) /\ DeliverySucceeded(l) =>
              /\ loops'[l].pc = "sleep"
              /\ \E i \in 1..Len(posts') :
                     /\ posts'[i].id = loops[l].post_id
                     /\ posts'[i].status = "sent"
              /\ get_next_post(posts').id # loops[l].post_id
              /\ NewIds(posts) = {loops[l].post_id} =>
                     get_next_post(posts').kind = "none"]_vars

\* one record stored, delivered once, the cycle over and the record sent
C5_Witness ==
    /\ Len(posts) = 1 /\ posts[1].status = "sent"
    /\ Count(delivered, posts[1].id) = 1
    /\ Len(loops) = 1 /\ loops[1].pc = "sleep" /\ loops[1].log = "sent"

\* C6: when the delivery attempt of a cycle fails, the error is caught inside
\* the cycle, the store is left as it was (the dequeued record keeps its
\* status, which is new unless another loop has sent it meanwhile; no other
\* record changes) and the loop goes on to its sleep and next cycle
C6_FailureKeepsRecordNew ==
    [][\A l \in 1..Len(loops) :
          Resumes(l) /\ ~DeliverySucceeded(l) =>
              /\ posts' = posts
              /\ Len(loops) = 1 => loops[l].post_id \in NewIds(posts')
              /\ Len(loops') = Len(loops)
              /\ loops'[l].pc = "sleep"
              /\ mainPc' = "polling"]_vars

\* a cycle ended with a send error, its record was never delivered and is new
C6_Witness ==
    /\ Len(loops) = 1 /\ loops[1].pc = "sleep" /\ loops[1].log = "send_error"
    /\ Len(posts) = 1 /\ posts[1].status = "new"
    /\ Count(delivered, posts[1].id) = 0

\* C7: when the translation call fails in any way (network error, timeout,
\* HTTP error status, malformed response) the cycle attempts delivery with
\* the record's original text
C7_FallbackToOriginalText ==
    \A l \in 1..Len(loops) :
        loops[l].pc = "send" /\ loops[l].trFailed =>
            loops[l].translated = PyStr(RowOf(posts, loops[l].post_id).text)

\* C8: a record is sent only if the channel received it earlier
C8_SentOnlyAfterDelivery ==
    \A i \in 1..Len(posts) :
        posts[i].status = "sent" => Count(delivered, posts[i].id) >= 1

\* a record is sent while another, never delivered, is still new
C8_Witness ==
    \E i, j \in 1..Len(posts) :
        /\ posts[i].status = "sent" /\ Count(delivered, posts[i].id) >= 1
        /\ posts[j].status = "new" /\ Count(delivered, posts[j].id) = 0

\* C9: a record reaches the channel more than once only after a delivery of
\* it that happened but was reported as failed
C9_DuplicateOnlyAfterLostAck ==
    \A i \in 1..Len(posts) :
        Count(delivered, posts[i].id) > 1 => Count(lostAck, posts[i].id) >= 1

\* C10: no failure while scraping an account (browser start, page load,
\* element extraction) aborts the run
C10_CollectionNeverAborts == mainPc # "crashed"

\* C11: every browser session fetch_posts opened is closed when it returns
\* or raises: outside fetch_posts no session is open
C11_SessionsAlwaysClosed ==
    mainPc \notin {"get", "extract"} => sessions = 0

\* C12: a loop is started only by a start command whose sender is ADMIN_ID;
\* a start command from any other user starts no loop, sends no reply and
\* leaves the store and the running loops unchanged; and while no loop has
\* been started nothing is delivered and no record is marked sent
C12_OnlyAdminStartsLoop ==
    [][/\ loops' # loops /\ Len(loops') > Len(loops) =>
            update.pending /\ ~update'.pending /\ update.user = ADMIN_ID
       /\ update.pending /\ ~update'.pending /\ update.user # ADMIN_ID =>
            loops' = loops /\ replies' = replies /\ posts' = posts
       /\ Len(loops') = 0 =>
            /\ delivered' = delivered
            /\ \A i \in 1..Len(posts') : posts'[i].status = "new"
       /\ replies' = 0 => Len(loops') = 0]_vars

\* a start command from another user was handled: there is a record to
\* publish, and still no reply, no loop and nothing sent
C12_Witness ==
    /\ ~update.pending /\ update.user \in Users \ {ADMIN_ID}
    /\ Len(posts) >= 1 /\ \A i \in 1..Len(posts) : posts[i].status = "new"
    /\ replies = 0 /\ Len(loops) = 0

\* C13: every record in the store, and every post handed to
\* save_posts_to_db by main, has a text that is non-empty after trimming
C13_NoBlankText ==
    /\ \A i \in 1..Len(posts) : Strip(posts[i].text) # <<>>
    /\ \A i \in 1..Len(batch) : Strip(batch[i].text) # <<>>

\* the page had an element with a link and a whitespace-only text, and the
\* list fetch_posts returned has no post for it
C13_Witness ==
    /\ mainPc = "save"
    /\ page.found
    /\ \E k \in 1..Len(page.elems) :
          LET elem == page.elems[k]
          IN /\ Truthy(elem.href) /\ elem.textElem.found
             /\ elem.textElem.text # <<>> /\ Strip(elem.textElem.text) = <<>>
             /\ \A i \in 1..Len(batch) :
                    batch[i].id # LastSegment(elem.href.s)

\* C15: an insert of a post whose external id is already stored leaves the
\* stored record as it was in every column (id, account, post_id, text,
\* status, created_at), whatever account and text it is observed with
C15_InsertLeavesExistingUnchanged ==
    [][call'.op = "insert_many" /\ seq' # seq =>
          /\ Len(posts') >= Len(posts)
          /\ \A i \in 1..Len(posts) : posts'[i] = posts[i]]_vars

\* the last call re-observed, under another account, the external id of the
\* one record there is, which was sent and still is, under its own account
C15_Witness ==
    /\ call.op = "insert_many" /\ call.arg >= 1
    /\ Len(posts) = 1
    /\ posts[1].status = "sent"
    /\ posts[1].account # call.account

\* C17: with one loop, the cycle after a cycle whose delivery of record r
\* failed dequeues r again and attempts its delivery, and a record is
\* attempted only when every record with a lower id is sent
C17_RetrySameRecord ==
    [][Len(loops) = 1 /\ Len(loops') = 1 =>
          /\ loops[1].pc = "sleep" /\ loops[1].log = "send_error"
                 /\ loops'[1] # loops[1] =>
                 /\ loops'[1].pc = "send"
                 /\ loops'[1].post_id = loops[1].post_id
                 /\ RowOf(posts', loops'[1].post_id).status = "new"
          /\ loops'[1].pc = "send" =>
                 \A i \in 1..Len(posts') :
                     posts'[i].id < loops'[1].post_id =>
                         posts'[i].status = "sent"]_vars

\* the only loop attempts a record again, after a delivery of it that raised
\* (with the acknowledgment lost), while a later record waits
C17_Witness ==
    /\ Len(loops) = 1 /\ loops[1].pc = "send"
    /\ Count(lostAck, loops[1].post_id) >= 1
    /\ RowOf(posts, loops[1].post_id).status = "new"
    /\ \E i \in 1..Len(posts) :
           posts[i].id > loops[1].post_id /\ posts[i].status = "new"

\* C18: there is no start-once guard: every start command of the admin
\* that is handled (and answered) while a loop is running starts one more
\* loop, which begins its own cycles against the same table
C18_EveryStartAddsLoop ==
    [][update.pending /\ ~update'.pending /\ update.user = ADMIN_ID
           /\ replies' = replies + 1 =>
          /\ Len(loops') = Len(loops) + 1
          /\ \A l \in 1..Len(loops) : loops'[l] = loops[l]
          /\ loops'[Len(loops')].pc = "start"]_vars

\* two loops dequeued the same new record, one while the other awaited
\* send_message, and each delivered it: the channel has it twice, with no
\* delivery reported as failed
C18_Witness ==
    /\ Len(loops) = 2
    /\ \E i \in 1..Len(posts) :
          /\ Count(delivered, posts[i].id) = 2
          /\ Count(lostAck, posts[i].id) = 0
          /\ posts[i].status = "sent"
    /\ \A l \in 1..Len(loops) : loops[l].log = "sent"

\* C19: in every reachable state, with any number of loops, the sent
\* records are a prefix of the table in id order: no record is sent while a
\* record with a lower id is new
C19_SentIsPrefix ==
    \A i, j \in 1..Len(posts) :
        posts[i].id < posts[j].id /\ posts[j].status = "sent" =>
            posts[i].status = "sent"

\* two loops both await the delivery of the second record, the first record
\* being sent
C19_Witness ==
    /\ Len(loops) = 2
    /\ Len(posts) = 2
    /\ posts[1].status = "sent" /\ posts[2].status = "new"
    /\ \A l \in 1..Len(loops) :
           loops[l].pc = "send" /\ loops[l].post_id = posts[2].id

----------------------------------------------------------------------------
(* Properties of the program under fair scheduling (LiveSpec) *)

\* the table never has more rows than the pages have distinct external ids
MaxRows ==
    Cardinality({LastSegment(h.s) : h \in {x \in Hrefs : Truthy(x)}})

\* C20: once a loop has been started, every record in the table is
\* eventually marked sent; and no loop ever terminates: whatever its cycle
\* found, it is at its sleep again and again, and from its sleep it attempts
\* a delivery again unless the other loops have emptied the queue
C20_AllEventuallySent ==
    /\ \A i \in 1..MaxRows :
           (Len(loops) >= 1 /\ Len(posts) >= i)
               ~> (Len(posts) >= i /\ posts[i].status = "sent")
    /\ [](\A l \in 1..Len(loops) : loops[l].pc \in {"start", "send", "sleep"})
    /\ \A l \in 1..MaxLoops :
           /\ (Len(loops) >= l) ~> (Len(loops) >= l /\ loops[l].pc = "sleep")
           /\ (Len(loops) >= l /\ loops[l].pc = "sleep" /\ NewIds(posts) # {})
                  ~> \/ NewIds(posts) = {}
                     \/ Len(loops) >= l /\ loops[l].pc = "send"

\* every record of a table of two has been sent, and the loop's last cycle
\* found the queue empty
C20_Witness ==
    /\ Len(loops) >= 1
    /\ Len(posts) = 2
    /\ \A i \in 1..Len(posts) : posts[i].status = "sent"
    /\ loops[1].pc = "sleep" /\ loops[1].log = "no_new_posts"

----------------------------------------------------------------------------
(* Properties of the configuration (ConfigSpec) *)

\* the integer a decimal literal denotes, by positional weights
PlaceValue(ds) ==
    LET w[i \in 0..Len(ds)] == IF i = 0 THEN 1 ELSE 10 * w[i - 1]
        v[i \in 0..Len(ds)] ==
            IF i = 0 THEN 0
            ELSE v[i - 1] + DigitValue(ds[i]) * w[Len(ds) - i]
    IN v[Len(ds)]

Configured(env) ==
    IF Head(env.s) = "-" THEN 0 - PlaceValue(Tail(env.s))
    ELSE PlaceValue(env.s)

\* C14: for every integer value of POST_INTERVAL in the environment the
\* effective interval is the smaller of that value and 1200, so never above
\* 1200 (3000 gives 1200); with no value in the environment it is 600
C14_IntervalClamped ==
    POST_INTERVAL # NotLoaded =>
        /\ environ = PyNone =>
               POST_INTERVAL = [state |-> "loaded", n |-> 600]
        /\ environ # PyNone /\ IsIntLiteral(environ.s) =>
               /\ POST_INTERVAL.state = "loaded"
               /\ POST_INTERVAL.n <= 1200
               /\ POST_INTERVAL.n <= Configured(environ)
               /\ POST_INTERVAL.n \in {Configured(environ), 1200}
        /\ environ = PyStr(<<"3", "0", "0", "0">>) => POST_INTERVAL.n = 1200

\* the module was loaded with POST_INTERVAL=3000 in the environment
C14_Witness ==
    /\ environ = PyStr(<<"3", "0", "0", "0">>)
    /\ POST_INTERVAL = [state |-> "loaded", n |-> 1200]

----------------------------------------------------------------------------
(* Properties of the program with storage errors (FaultSpec) *)

\* C16: a storage error raised by insert_many, next_pending or mark_sent is
\* not caught: it ends the operation in progress, the collection pass of
\* main or the cycle of the loop, with the exception going to the caller
C16_StorageErrorsPropagate ==
    [][storageError' # storageError =>
          IF storageError'.op = "insert_many"
          THEN mainPc' = "crashed"
          ELSE loops'[storageError'.loop].pc = "dead"]_vars

====
